---- MODULE Spec2Model ----
(***************************************************************************)
(* A model of the us_tracker scripts: the daily-report loader and its      *)
(* refresh logic (load_database.py), the directory scans (file_handling.py,*)
(* from_dailys.py), the derived series and the charts of direct_plot.py,   *)
(* the trajectory of from_dailys.py, the BC regional loader                *)
(* (load_bc_regional_data.py), remove_updated_files.py and timer.py.       *)
(***************************************************************************)
EXTENDS Integers, Sequences, FiniteSets, TLC

VARIABLES
    listing,        \* file_handling: what os.listdir(from_dir) returned
    got_files,      \* file_handling: what get_files returned (or raised)
    csv_line,       \* LineDatum: the csv.DictReader line handed to it
    line_datum,     \* LineDatum: the object built from csv_line (or the exception)
    mt_disk,        \* needs_refreshing: os.path.getmtime of the file on disk
    mt_loaded,      \* needs_refreshing: the file's Loaded.filetime, if recorded
    mt_call,        \* needs_refreshing: the latest call, its inputs and outcome
    collation,      \* loader: whether the database compares strings ignoring case
    disk,           \* loader: the daily report files of JHU_DATA_DIRECTORY
    db,             \* loader: the committed contents of the database
    tx,             \* loader: the database as the session's open transaction sees it
    run,            \* loader: where main() of load_database.py is
    runs,           \* loader: how many times load_database.py was started
    pulls,          \* loader: how many times the data directory was updated
    loads,          \* loader: per date, how often a load of its file was committed
    flag_used,      \* loader: --load-missing-files was given to some run
    interrupted,    \* loader: the file whose load was cut short and is still due
    refresh_log,    \* loader: the latest call of refresh_lines
    days_arg,       \* direct_plot: args.days
    location_result,\* direct_plot: the focus rows get_data_from_db returned
    parent_result,  \* direct_plot: the parent rows get_data_from_db returned
    location_data,  \* direct_plot: set_data's location_data
    parent_data,    \* direct_plot: set_data's parent_data
    all_days,       \* direct_plot: Day.all_days
    plot_pc,        \* direct_plot: where main() is
    bc_csv,         \* load_bc_data: the rows of the downloaded CSV
    bc_i,           \* load_bc_data: how many rows were processed
    total_counts,   \* load_bc_regional_data.total_counts
    bc_db,          \* load_bc_data: the committed contents of the database
    bc_tx,          \* load_bc_data: the database as the session sees it
    bc_runs,        \* load_bc_data: how many runs were started
    bc_row_log,     \* load_bc_data: what the latest process_bc_row did
    ru_lines,       \* remove_updated_files: the lines of updated_files.txt
    ru_i,           \* remove_updated_files: how many lines main() has handled
    ru_db,          \* remove_updated_files: the database
    ru_db0,         \* remove_updated_files: the database when main() started
    ru_status,      \* remove_updated_files: running, done or the exception
    perf_counter,   \* timer: what time.perf_counter() returns now
    start_time,     \* timer: Timer._start_time
    elapsed_time,   \* timer: Timer.elapsed_time
    timer_call,     \* timer: the latest call, the state before it, its outcome
    timer_last_ok,  \* timer: the latest call that did not raise
    dailys_files,   \* from_dailys: what get_files returned
    traj_days,      \* from_dailys: the days handed to compute_trajectory
    traj_status,    \* from_dailys: compute_trajectory not called, returned, raised
    active_cases,   \* direct_plot: args.active_cases
    plot_shown      \* direct_plot: the call of plot_it, its inputs and outcome

filesVars == <<listing, got_files>>
lineVars == <<csv_line, line_datum>>
mtimeVars == <<mt_disk, mt_loaded, mt_call>>
loadVars == <<collation, disk, db, tx, run, runs, pulls, loads, flag_used,
              interrupted, refresh_log>>
plotVars == <<days_arg, location_result, parent_result, location_data,
              parent_data, all_days, plot_pc>>
bcVars == <<bc_csv, bc_i, total_counts, bc_db, bc_tx, bc_runs, bc_row_log>>
ruVars == <<ru_lines, ru_i, ru_db, ru_db0, ru_status>>
timerVars == <<perf_counter, start_time, elapsed_time, timer_call, timer_last_ok>>
dailysVars == <<dailys_files, traj_days, traj_status>>
showVars == <<active_cases, plot_shown>>
laterVars == <<bcVars, ruVars, timerVars, dailysVars, showVars>>
vars == <<filesVars, lineVars, mtimeVars, loadVars, plotVars, laterVars>>

NotCalled == [status |-> "not called"]

(***************************************************************************)
(* file_handling.py                                                        *)
(***************************************************************************)

\* The largest number of directory entries of a scan.
MaxFiles == 3

\* Directory entries.  A "dated" entry is a name of the shape dd-dd-dddd.csv
\* (two digits, two digits, four digits); every other name is "other".
MonthFields == {1, 2, 12, 13}
DayFields == {1, 29, 31}
YearFields == {2020, 2021}
DatedNames == [kind : {"dated"}, mm : MonthFields, dd : DayFields, yyyy : YearFields]
OtherNames == {[kind |-> "other", mm |-> 0, dd |-> 0, yyyy |-> 0]}
Names == DatedNames \cup OtherNames

\* re.match(r'\d{2}-\d{2}-\d{4}\.csv', f)
MatchesDailyPattern(f) == f.kind = "dated"

IsLeap(y) == (y % 4 = 0 /\ y % 100 # 0) \/ y % 400 = 0

DaysInMonth(y, m) ==
    IF m = 2 THEN (IF IsLeap(y) THEN 29 ELSE 28)
    ELSE IF m \in {4, 6, 9, 11} THEN 30 ELSE 31

RECURSIVE DaysBeforeMonth(_, _)
DaysBeforeMonth(y, m) ==
    IF m <= 1 THEN 0 ELSE DaysBeforeMonth(y, m - 1) + DaysInMonth(y, m - 1)

\* datetime.strptime(..., '%m-%d-%Y') accepts the name: a real calendar date.
IsCalendarDate(f) ==
    /\ f.mm >= 1 /\ f.mm <= 12
    /\ f.dd >= 1 /\ f.dd <= DaysInMonth(f.yyyy, f.mm)

\* date.toordinal(): the proleptic Gregorian day count, 0001-01-01 being day 1.
ToOrdinal(y, m, d) ==
    365 * (y - 1) + ((y - 1) \div 4) - ((y - 1) \div 100) + ((y - 1) \div 400)
        + DaysBeforeMonth(y, m) + d

\* The sort key as a string sort of the names would order them.
filename_as_text_key(f) == f.mm * 1000000 + f.dd * 10000 + f.yyyy

\* filename_to_ordinal_date(filename), for a name strptime accepts.
filename_to_ordinal_date(f) == ToOrdinal(f.yyyy, f.mm, f.dd)

\* The entries of a listing that match the pattern, in listing order.
RECURSIVE Filtered(_)
Filtered(all_files) ==
    IF all_files = <<>> THEN <<>>
    ELSE IF MatchesDailyPattern(Head(all_files))
         THEN <<Head(all_files)>> \o Filtered(Tail(all_files))
         ELSE Filtered(Tail(all_files))

\* Insert f behind every element whose key is not larger: a stable sort step.
RECURSIVE InsertByKey(_, _)
InsertByKey(sorted, f) ==
    IF sorted = <<>> THEN <<f>>
    ELSE IF filename_to_ordinal_date(f) < filename_to_ordinal_date(Head(sorted))
         THEN <<f>> \o sorted
         ELSE <<Head(sorted)>> \o InsertByKey(Tail(sorted), f)

\* sorted(filtered, key=filename_to_ordinal_date)
RECURSIVE SortedByKey(_)
SortedByKey(filtered) ==
    IF filtered = <<>> THEN <<>>
    ELSE InsertByKey(SortedByKey(SubSeq(filtered, 1, Len(filtered) - 1)),
                     filtered[Len(filtered)])

\* get_files(from_dir): strptime raises ValueError on a matching name that is
\* no calendar date, and the exception leaves get_files.
get_files(all_files) ==
    LET filtered == Filtered(all_files) IN
    IF \E i \in 1..Len(filtered) : ~IsCalendarDate(filtered[i])
    THEN [status |-> "ValueError", files |-> <<>>]
    ELSE [status |-> "returned", files |-> SortedByKey(filtered)]

\* Sequences of at most n distinct elements of S.
Listings(S, n) ==
    UNION {{s \in [1..k -> S] : \A i, j \in 1..k : i # j => s[i] # s[j]} : k \in 0..n}

FilesStart ==
    /\ listing \in Listings(Names, MaxFiles)
    /\ got_files = NotCalled

FilesIdle ==
    /\ listing = <<>>
    /\ got_files = NotCalled

GetFiles ==
    /\ got_files = NotCalled
    /\ got_files' = get_files(listing)
    /\ UNCHANGED <<listing, lineVars, mtimeVars, loadVars, plotVars, laterVars>>

\* The calendar order of two dated names.
EarlierDate(a, b) ==
    \/ a.yyyy < b.yyyy
    \/ a.yyyy = b.yyyy /\ a.mm < b.mm
    \/ a.yyyy = b.yyyy /\ a.mm = b.mm /\ a.dd < b.dd

\* C9: file_handling.get_files returns exactly the entries that match
\* mm-dd-yyyy.csv, and of any two returned names the one with the earlier
\* calendar date comes first, also across years.
GetFilesSortedByDate ==
    got_files.status = "returned" =>
        /\ Len(got_files.files) = Len(Filtered(listing))
        /\ \A i \in 1..Len(listing) :
               MatchesDailyPattern(listing[i]) <=>
                   \E j \in 1..Len(got_files.files) : got_files.files[j] = listing[i]
        /\ \A i, j \in 1..Len(got_files.files) :
               EarlierDate(got_files.files[i], got_files.files[j]) => i < j

\* Two files of different years whose month-day order is the reverse of their
\* date order were returned.
GetFilesAcrossYears ==
    /\ got_files.status = "returned"
    /\ \E i, j \in 1..Len(got_files.files) :
           /\ got_files.files[i].yyyy < got_files.files[j].yyyy
           /\ got_files.files[i].mm > got_files.files[j].mm

(***************************************************************************)
(* load_database.py: LineDatum                                             *)
(***************************************************************************)

\* What csv.DictReader hands over for one column of one line.  "absent": the
\* file has no such column; "None": the line is shorter than the header;
\* "blank": the empty string; "text": something that is no number; "int" and
\* "float": an integer and a decimal literal; "inf" and "nan": the literals
\* float() accepts.  e5 is the number in units of 0.00001.
Raw(kind, e5) == [kind |-> kind, e5 |-> e5]
RawValues ==
    {Raw("absent", 0), Raw("None", 0), Raw("blank", 0), Raw("text", 0),
     Raw("int", 700000), Raw("float", 750000), Raw("float", 12345)}
RawDeathsValues ==
    RawValues \cup {Raw("inf", 0), Raw("nan", 0), Raw("float", 0 - 150000)}

Columns ==
    {"Confirmed", "Deaths", "Recovered", "Active", "Incidence_rate",
     "Case_Fatality_Ratio"}
CsvLines ==
    [Confirmed : RawValues, Deaths : RawDeathsValues, Recovered : RawValues,
     Active : RawValues, Incidence_rate : RawValues,
     Case_Fatality_Ratio : RawValues]

Value(v) == [exc |-> "none", val |-> v, special |-> "finite"]
Special(what) == [exc |-> "none", val |-> 0, special |-> what]
Raise(e) == [exc |-> e, val |-> 0, special |-> "finite"]

\* Integer division rounding toward zero, as int() truncates a float.
Trunc(n, d) == IF n >= 0 THEN n \div d ELSE 0 - ((0 - n) \div d)

\* int(line[column])
py_int(raw) ==
    IF raw.kind = "absent" THEN Raise("KeyError")
    ELSE IF raw.kind = "None" THEN Raise("TypeError")
    ELSE IF raw.kind = "int" THEN Value(raw.e5 \div 100000)
    ELSE Raise("ValueError")

\* float(line[column]), in units of 0.00001
py_float(raw) ==
    IF raw.kind = "absent" THEN Raise("KeyError")
    ELSE IF raw.kind = "None" THEN Raise("TypeError")
    ELSE IF raw.kind \in {"int", "float"} THEN Value(raw.e5)
    ELSE IF raw.kind \in {"inf", "nan"} THEN Special(raw.kind)
    ELSE Raise("ValueError")

\* int(float(line[column])): int() of an infinity raises OverflowError and of
\* a NaN ValueError.
py_int_of_float(raw) ==
    LET f == py_float(raw) IN
    IF f.exc # "none" THEN f
    ELSE IF f.special = "inf" THEN Raise("OverflowError")
    ELSE IF f.special = "nan" THEN Raise("ValueError")
    ELSE Value(Trunc(f.val, 100000))

\* round(x, 4) of a number of units of 0.00001: the nearest multiple of 10
\* units, a tie going to the even one.
Round4(e5) ==
    LET lo == (e5 \div 10) * 10
        r == e5 - lo
    IN  IF r < 5 THEN lo
        ELSE IF r > 5 THEN lo + 10
        ELSE IF (lo \div 10) % 2 = 0 THEN lo ELSE lo + 10

\* round(float(line[column]), 4)
py_round4_of_float(raw) ==
    LET f == py_float(raw) IN
    IF f.exc = "none" /\ f.special = "finite" THEN Value(Round4(f.val)) ELSE f

\* try: ... except <caught>: field = 0
Except(res, caught) == IF res.exc \in caught THEN Value(0) ELSE res

\* LineDatum.__init__: the six assignments in order; the first exception
\* that no except clause catches leaves the constructor.  (The inf and nan
\* literals are drawn for the Deaths column only, so incidence_rate and
\* case_fatality_ratio are finite numbers here.)
LineDatum(line) ==
    LET confirmed == Except(py_int(line.Confirmed), {"ValueError"})
        deaths == Except(py_int_of_float(line.Deaths), {"ValueError"})
        recovered == Except(py_int(line.Recovered), {"ValueError"})
        active == Except(py_int(line.Active), {"ValueError", "KeyError"})
        incidence_rate ==
            Except(py_float(line.Incidence_rate), {"ValueError", "KeyError"})
        case_fatality_ratio ==
            Except(py_round4_of_float(line.Case_Fatality_Ratio),
                   {"ValueError", "KeyError"})
        all == <<confirmed, deaths, recovered, active, incidence_rate,
                 case_fatality_ratio>>
        raised == {i \in 1..6 : all[i].exc # "none"}
        first == CHOOSE i \in raised : \A j \in raised : i <= j
    IN  IF raised # {}
        THEN [status |-> all[first].exc, active |-> 0, case_fatality_ratio |-> 0,
              confirmed |-> 0, deaths |-> 0, incidence_rate |-> 0, recovered |-> 0]
        ELSE [status |-> "constructed",
              active |-> active.val,
              case_fatality_ratio |-> case_fatality_ratio.val,
              confirmed |-> confirmed.val,
              deaths |-> deaths.val,
              incidence_rate |-> incidence_rate.val,
              recovered |-> recovered.val]

LineStart ==
    /\ csv_line \in CsvLines
    /\ line_datum = NotCalled

LineIdle ==
    /\ csv_line = [c \in Columns |-> Raw("absent", 0)]
    /\ line_datum = NotCalled

NewLineDatum ==
    /\ line_datum = NotCalled
    /\ line_datum' = LineDatum(csv_line)
    /\ UNCHANGED <<csv_line, filesVars, mtimeVars, loadVars, plotVars, laterVars>>

(***************************************************************************)
(* load_database.py: needs_refreshing and record_file_mtime                *)
(***************************************************************************)

\* Modification times are whole seconds from 0 to MaxMtime.
MaxMtime == 12

NoRecord == <<>>

\* The decimal digits of n as character codes ("0" is 48).
RECURSIVE Digits(_)
Digits(n) == IF n < 10 THEN <<48 + n>> ELSE Digits(n \div 10) \o <<48 + (n % 10)>>

\* f'{current_mtime}' of a float holding a whole number of seconds: the
\* digits, a point (46) and a zero.
format_mtime(mtime) == Digits(mtime) \o <<46, 48>>

\* a < b of two Python strings: by the code of the first character that
\* differs, a proper prefix being the smaller.
RECURSIVE StrLess(_, _)
StrLess(a, b) ==
    IF b = <<>> THEN FALSE
    ELSE IF a = <<>> THEN TRUE
    ELSE IF Head(a) # Head(b) THEN Head(a) < Head(b)
    ELSE StrLess(Tail(a), Tail(b))

\* needs_refreshing(session, filename), given the file's Loaded.filetime (or
\* NoRecord) and the mtime of the file on disk.
needs_refreshing(filetime, current_mtime) ==
    LET string_current_mtime == format_mtime(current_mtime) IN
    IF filetime = NoRecord THEN "True"
    ELSE IF StrLess(string_current_mtime, filetime) THEN "ValueError"
    ELSE IF StrLess(filetime, string_current_mtime) THEN "True"
    ELSE "False"

\* The filetime record_file_mtime leaves in the file's Loaded record.
record_file_mtime(filetime, current_mtime) ==
    IF needs_refreshing(filetime, current_mtime) = "True"
    THEN format_mtime(current_mtime)
    ELSE filetime

MtimeStart ==
    /\ mt_disk \in 0..MaxMtime
    /\ mt_loaded = NoRecord
    /\ mt_call = NotCalled

MtimeIdle ==
    /\ mt_disk = 0
    /\ mt_loaded = NoRecord
    /\ mt_call = NotCalled

\* The file on disk is replaced (a pull of the data repository).
Touch ==
    /\ mt_disk' \in 0..MaxMtime
    /\ mt_disk' # mt_disk
    /\ UNCHANGED <<mt_loaded, mt_call, filesVars, lineVars, loadVars, plotVars, laterVars>>

NeedsRefreshing ==
    /\ mt_call' = [status |-> needs_refreshing(mt_loaded, mt_disk),
                   filetime |-> mt_loaded, current_mtime |-> mt_disk]
    /\ UNCHANGED <<mt_disk, mt_loaded, filesVars, lineVars, loadVars, plotVars, laterVars>>

RecordFileMtime ==
    /\ needs_refreshing(mt_loaded, mt_disk) # "ValueError"
    /\ mt_loaded' = record_file_mtime(mt_loaded, mt_disk)
    /\ UNCHANGED <<mt_disk, mt_call, filesVars, lineVars, loadVars, plotVars, laterVars>>

(***************************************************************************)
(* load_database.py: the loader                                            *)
(***************************************************************************)

\* Daily files exist for the ordinal dates 1..MaxDate; a file is named by
\* its ordinal date.
MaxDate == 2
\* The largest number of lines of a daily file.
MaxLines == 2
\* How often load_database.py is started.
MaxRuns == 2
\* How often the data directory is updated.
MaxPulls == 2

Dates == 1..MaxDate

\* The location keys of the lines: two spellings of one county and another
\* county.  The empty key is a Combined_Key column that is blank.
JhuKeys == {"Desoto", "DeSoto", "Bibb"}

\* str.upper()
upper(key) ==
    IF key \in {"Desoto", "DeSoto"} THEN "DESOTO"
    ELSE IF key = "Bibb" THEN "BIBB" ELSE key

\* The count columns of a line: a report, the report corrected, and a line
\* of a file that has no Confirmed column.
LineA ==
    [Confirmed |-> Raw("int", 700000), Deaths |-> Raw("float", 100000),
     Recovered |-> Raw("blank", 0), Active |-> Raw("absent", 0),
     Incidence_rate |-> Raw("float", 12345),
     Case_Fatality_Ratio |-> Raw("float", 1428571)]
LineB == [LineA EXCEPT !.Confirmed = Raw("int", 800000),
                       !.Case_Fatality_Ratio = Raw("float", 1250000)]
LineX == [LineA EXCEPT !.Confirmed = Raw("absent", 0)]

\* The lines of the daily files: a county's report, the county's corrected
\* report under the other spelling, another county's report, a line with a
\* blank key and a line that lacks the Confirmed column.
FileLines ==
    {[key |-> "Desoto", raw |-> LineA], [key |-> "DeSoto", raw |-> LineB],
     [key |-> "Bibb", raw |-> LineA], [key |-> "", raw |-> LineA],
     [key |-> "Bibb", raw |-> LineX]}

Contents == UNION {[1..n -> FileLines] : n \in 1..MaxLines}

NoFile == [exists |-> FALSE, lines |-> <<>>, mtime |-> 0]

\* The six data fields of a LineDatum or of a datum row.
Fields(d) ==
    [active |-> d.active, case_fatality_ratio |-> d.case_fatality_ratio,
     confirmed |-> d.confirmed, deaths |-> d.deaths,
     incidence_rate |-> d.incidence_rate, recovered |-> d.recovered]

\* The tables of database_schema.py: location (its jhu_key column), datum,
\* last_date (0: no row) and loaded (filename -> filetime).
EmptyDb ==
    [location |-> {}, datum |-> {}, last_date |-> 0,
     loaded |-> [d \in Dates |-> NoRecord]]

Idle ==
    [phase |-> "idle", flag |-> FALSE, last |-> 0, todo |-> <<>>, cur |-> 0,
     line |-> 0, committed |-> FALSE, opened_db |-> EmptyDb]

NoneInterrupted == [date |-> 0, flag |-> FALSE]

\* get_files(JHU_DATA_DIRECTORY): the daily files by ascending date.
RECURSIVE daily_files(_, _)
daily_files(dsk, d) ==
    IF d > MaxDate THEN <<>>
    ELSE (IF dsk[d].exists THEN <<d>> ELSE <<>>) \o daily_files(dsk, d + 1)

\* session.query(Location).filter(Location.jhu_key == jhu_key): the rows the
\* database finds equal to the key under its collation.
location_matches(locations, jhu_key, ci) ==
    {k \in locations : k = jhu_key \/ (ci /\ upper(k) = upper(jhu_key))}

\* get_location: the location row of the line, added when there is none.
get_location(dbs, jhu_key, ci) ==
    LET found == location_matches(dbs.location, jhu_key, ci) IN
    IF found # {}
    THEN [location |-> CHOOSE k \in found : TRUE, dbs |-> dbs]
    ELSE [location |-> jhu_key,
          dbs |-> [dbs EXCEPT !.location = @ \cup {jhu_key}]]

\* The primary key the database gives a new datum row.
next_id(datum) ==
    IF datum = {} THEN 1
    ELSE 1 + (CHOOSE i \in {r.id : r \in datum} : \A r \in datum : r.id <= i)

\* datum_from_line
datum_from_line(line_values, location, ordinal_date, id) ==
    [id |-> id, ordinal_date |-> ordinal_date, location_jhu_key |-> location,
     v |-> Fields(line_values)]

\* process_line: IndexError from get_location skips the line; an exception
\* of LineDatum leaves process_line.
process_line(dbs, line, ordinal_date, ci) ==
    IF line.key = "" THEN [exc |-> "none", dbs |-> dbs]
    ELSE LET got == get_location(dbs, line.key, ci)
             line_values == LineDatum(line.raw)
         IN  IF line_values.status # "constructed"
             THEN [exc |-> line_values.status, dbs |-> got.dbs]
             ELSE [exc |-> "none",
                   dbs |-> [got.dbs EXCEPT !.datum = @ \cup
                       {datum_from_line(line_values, got.location, ordinal_date,
                                        next_id(got.dbs.datum))}]]

\* update_latest_ordinal_date
update_latest_ordinal_date(dbs, ordinal_date) ==
    [dbs EXCEPT !.last_date = ordinal_date]

\* date_is_missing_data: the database holds no data for the date.
date_is_missing_data(dbs, ordinal_date) ==
    ~\E r \in dbs.datum : r.ordinal_date = ordinal_date

\* "Have we already processed this one?"
already_processed_off_by_one(ordinal_date, last_ordinal_date_processed) ==
    ordinal_date < last_ordinal_date_processed

already_processed(ordinal_date, last_ordinal_date_processed) ==
    ordinal_date <= last_ordinal_date_processed

\* initial_load_jhu_files: whether the loop skips the file.
skips(ordinal_date, last, flag, dbs) ==
    /\ already_processed(ordinal_date, last)
    /\ (~flag \/ ~date_is_missing_data(dbs, ordinal_date))

\* get_all_db_records_for_day: one DbDatum per upper-cased key of the day's
\* rows.  The SELECT has no ORDER BY, so which of several rows of one
\* upper-cased key is fetched last, and stays in the dict, is open.
rows_for_day(datum, ordinal_date) == {r \in datum : r.ordinal_date = ordinal_date}

get_all_db_records_for_day(datum, ordinal_date) ==
    LET rows == rows_for_day(datum, ordinal_date)
        keys == {upper(r.location_jhu_key) : r \in rows}
    IN  {data \in [keys -> rows] :
            \A u \in keys : upper(data[u].location_jhu_key) = u}

\* "if msg:" of refresh_lines: some field of the line differs from the
\* stored datum.
always_update(new_datum, stored_datum) == TRUE

fields_differ(new_datum, stored_datum) ==
    \/ new_datum.active # stored_datum.active
    \/ new_datum.case_fatality_ratio # stored_datum.case_fatality_ratio
    \/ new_datum.confirmed # stored_datum.confirmed
    \/ new_datum.deaths # stored_datum.deaths
    \/ new_datum.incidence_rate # stored_datum.incidence_rate
    \/ new_datum.recovered # stored_datum.recovered

\* The stored datum after the six comparisons.
assign_changed(new_datum, stored_datum) ==
    [f \in DOMAIN stored_datum |->
        IF new_datum[f] # stored_datum[f] THEN new_datum[f] ELSE stored_datum[f]]

\* UPDATE datum SET ... WHERE id=:id
update_datum(datum, id, values) ==
    {IF r.id = id THEN [r EXCEPT !.v = values] ELSE r : r \in datum}

row_values(datum, id) == (CHOOSE r \in datum : r.id = id).v

\* The loop of refresh_lines from line i on.  st.db_data is the dict of
\* stored datums, st.datum the datum table, st.updates the UPDATEs issued.
RECURSIVE refresh_loop(_, _, _)
refresh_loop(st, lines, i) ==
    IF i > Len(lines) THEN st
    ELSE
        LET line == lines[i]
            new_datum == LineDatum(line.raw)
            key == upper(line.key)
        IN  IF line.key = "" THEN [st EXCEPT !.exc = "IndexError"]
            ELSE IF new_datum.status # "constructed"
            THEN [st EXCEPT !.exc = new_datum.status]
            ELSE IF key \notin DOMAIN st.db_data
            THEN refresh_loop(st, lines, i + 1)
            ELSE
                LET stored_datum == st.db_data[key]
                    changed == assign_changed(Fields(new_datum), stored_datum.v)
                IN  IF fields_differ(Fields(new_datum), stored_datum.v)
                    THEN refresh_loop(
                            [st EXCEPT
                                !.db_data[key].v = changed,
                                !.updates = Append(@,
                                    [id |-> stored_datum.id, line |-> i,
                                     stored |-> row_values(st.datum, stored_datum.id),
                                     new |-> Fields(new_datum)]),
                                !.datum = update_datum(@, stored_datum.id, changed)],
                            lines, i + 1)
                    ELSE refresh_loop(st, lines, i + 1)

\* refresh_lines(session, filename)
refresh_lines(datum, db_data, lines) ==
    refresh_loop([datum |-> datum, db_data |-> db_data, updates |-> <<>>,
                  exc |-> "none"], lines, 1)

LoadStart ==
    /\ collation \in BOOLEAN
    /\ disk = [d \in Dates |-> NoFile]
    /\ db = EmptyDb
    /\ tx = EmptyDb
    /\ run = Idle
    /\ runs = 0
    /\ pulls = 0
    /\ loads = [d \in Dates |-> 0]
    /\ flag_used = FALSE
    /\ interrupted = NoneInterrupted
    /\ refresh_log = NotCalled

LoadIdle ==
    /\ collation = TRUE
    /\ disk = [d \in Dates |-> NoFile]
    /\ db = EmptyDb
    /\ tx = EmptyDb
    /\ run = Idle
    /\ runs = 0
    /\ pulls = 0
    /\ loads = [d \in Dates |-> 0]
    /\ flag_used = FALSE
    /\ interrupted = NoneInterrupted
    /\ refresh_log = NotCalled

otherVars == <<filesVars, lineVars, mtimeVars, plotVars, laterVars>>

\* The data repository is pulled: the next daily file arrives or a file is
\* replaced by a corrected one.
Pull ==
    /\ run.phase = "idle"
    /\ pulls < MaxPulls
    /\ pulls' = pulls + 1
    /\ \E d \in Dates, lines \in Contents :
           /\ d > 1 => disk[d - 1].exists
           /\ lines # disk[d].lines
           /\ disk' = [disk EXCEPT ![d] =
                  [exists |-> TRUE, lines |-> lines, mtime |-> 7 + pulls']]
    /\ UNCHANGED <<collation, db, tx, run, runs, loads, flag_used, interrupted,
                   refresh_log, otherVars>>

\* remove_updated_files.py main(): the data of the listed dates are deleted.
RemoveUpdatedFiles ==
    /\ run.phase = "idle"
    /\ \E listed \in (SUBSET Dates) \ {{}} :
           /\ \E r \in db.datum : r.ordinal_date \in listed
           /\ db' = [db EXCEPT !.datum = {r \in @ : r.ordinal_date \notin listed}]
    /\ tx' = db'
    /\ UNCHANGED <<collation, disk, run, runs, pulls, loads, flag_used,
                   interrupted, refresh_log, otherVars>>

\* main() up to the loop of initial_load_jhu_files.
StartRun ==
    /\ run.phase = "idle"
    /\ runs < MaxRuns
    /\ runs' = runs + 1
    /\ \E load_missing_files \in BOOLEAN :
           /\ run' = [Idle EXCEPT !.phase = "load", !.flag = load_missing_files,
                                  !.last = db.last_date,
                                  !.todo = daily_files(disk, 1)]
           /\ flag_used' = (flag_used \/ load_missing_files)
    /\ refresh_log' = NotCalled
    /\ UNCHANGED <<collation, disk, db, tx, pulls, loads, interrupted, otherVars>>

\* initial_load_jhu_files: continue
SkipFile ==
    /\ run.phase = "load"
    /\ run.todo # <<>>
    /\ skips(Head(run.todo), run.last, run.flag, tx)
    /\ run' = [run EXCEPT !.todo = Tail(@)]
    /\ UNCHANGED <<collation, disk, db, tx, runs, pulls, loads, flag_used,
                   interrupted, refresh_log, otherVars>>

\* initial_load_jhu_files calls process_one_jhu_file, which opens the file.
OpenFile ==
    /\ run.phase = "load"
    /\ run.todo # <<>>
    /\ ~skips(Head(run.todo), run.last, run.flag, tx)
    /\ run' = [run EXCEPT !.phase = "file", !.cur = Head(run.todo),
                          !.todo = Tail(@), !.line = 1, !.committed = FALSE,
                          !.opened_db = db]
    /\ interrupted' =
           IF interrupted.date = Head(run.todo) THEN NoneInterrupted
           ELSE interrupted
    /\ UNCHANGED <<collation, disk, db, tx, runs, pulls, loads, flag_used,
                   refresh_log, otherVars>>

\* The program ends in an exception or is killed: the open transaction is
\* rolled back.
Abort(in_file) ==
    /\ run' = Idle
    /\ tx' = db
    /\ interrupted' =
           IF in_file /\ ~run.committed
           THEN [date |-> run.cur, flag |-> run.flag]
           ELSE interrupted

\* One turn of "for line in reader" with a commit after every line.
ProcessLineCommitting ==
    /\ run.phase = "file"
    /\ run.line <= Len(disk[run.cur].lines)
    /\ LET done == process_line(tx, disk[run.cur].lines[run.line], run.cur,
                                collation)
       IN  IF done.exc # "none"
           THEN Abort(TRUE) /\ UNCHANGED db
           ELSE /\ tx' = done.dbs
                /\ db' = done.dbs
                /\ run' = [run EXCEPT !.line = @ + 1]
                /\ UNCHANGED interrupted
    /\ UNCHANGED <<collation, disk, runs, pulls, loads, flag_used,
                   refresh_log, otherVars>>

\* process_one_jhu_file: one turn of "for line in reader".
ProcessLine ==
    /\ run.phase = "file"
    /\ run.line <= Len(disk[run.cur].lines)
    /\ LET done == process_line(tx, disk[run.cur].lines[run.line], run.cur,
                                collation)
       IN  IF done.exc # "none"
           THEN Abort(TRUE)
           ELSE /\ tx' = done.dbs
                /\ run' = [run EXCEPT !.line = @ + 1]
                /\ UNCHANGED interrupted
    /\ UNCHANGED <<collation, disk, db, runs, pulls, loads, flag_used,
                   refresh_log, otherVars>>

\* process_one_jhu_file after the last line: update_latest_ordinal_date and
\* record_file_mtime, which commits when it changes the Loaded record.
FinishFile ==
    /\ run.phase = "file"
    /\ run.line > Len(disk[run.cur].lines)
    /\ LET dated == update_latest_ordinal_date(tx, run.cur)
           needs == needs_refreshing(dated.loaded[run.cur], disk[run.cur].mtime)
           recorded == [dated EXCEPT !.loaded[run.cur] =
                           record_file_mtime(@, disk[run.cur].mtime)]
       IN  IF needs = "ValueError"
           THEN Abort(TRUE) /\ UNCHANGED <<db, loads>>
           ELSE IF needs = "True"
           THEN /\ tx' = recorded
                /\ db' = recorded
                /\ loads' = [loads EXCEPT ![run.cur] = @ + 1]
                /\ run' = [run EXCEPT !.phase = "commit", !.committed = TRUE]
                /\ UNCHANGED interrupted
           ELSE /\ tx' = dated
                /\ run' = [run EXCEPT !.phase = "commit"]
                /\ UNCHANGED <<db, loads, interrupted>>
    /\ UNCHANGED <<collation, disk, runs, pulls, flag_used, refresh_log,
                   otherVars>>

\* process_one_jhu_file: session.commit()
CommitFile ==
    /\ run.phase = "commit"
    /\ db' = tx
    /\ loads' = IF run.committed THEN loads
                ELSE [loads EXCEPT ![run.cur] = @ + 1]
    /\ run' = [run EXCEPT !.phase = "load", !.committed = FALSE,
                          !.opened_db = EmptyDb, !.cur = 0, !.line = 0]
    /\ UNCHANGED <<collation, disk, tx, runs, pulls, flag_used, interrupted,
                   refresh_log, otherVars>>

\* initial_load_jhu_files returns and refresh_files lists the directory.
StartRefresh ==
    /\ run.phase = "load"
    /\ run.todo = <<>>
    /\ run' = [run EXCEPT !.phase = "refresh", !.todo = daily_files(disk, 1)]
    /\ UNCHANGED <<collation, disk, db, tx, runs, pulls, loads, flag_used,
                   interrupted, refresh_log, otherVars>>

\* refresh_files: the file is up to date.
SkipRefresh ==
    /\ run.phase = "refresh"
    /\ run.todo # <<>>
    /\ needs_refreshing(tx.loaded[Head(run.todo)], disk[Head(run.todo)].mtime)
           = "False"
    /\ run' = [run EXCEPT !.todo = Tail(@)]
    /\ UNCHANGED <<collation, disk, db, tx, runs, pulls, loads, flag_used,
                   interrupted, refresh_log, otherVars>>

\* refresh_files: one file that needs refreshing.  needs_refreshing may
\* raise; refresh_lines sends its UPDATEs through the engine, each committed
\* at once, and may raise part way; record_file_mtime and the commit follow.
RefreshFile ==
    /\ run.phase = "refresh"
    /\ run.todo # <<>>
    /\ LET d == Head(run.todo)
           needs == needs_refreshing(tx.loaded[d], disk[d].mtime)
       IN  /\ needs # "False"
           /\ IF needs = "ValueError"
              THEN /\ run' = Idle
                   /\ UNCHANGED <<db, tx, refresh_log>>
              ELSE \E db_data \in get_all_db_records_for_day(db.datum, d) :
                     LET st == refresh_lines(db.datum, db_data, disk[d].lines)
                     IN  /\ refresh_log' =
                                [status |-> "called", date |-> d,
                                 lines |-> disk[d].lines, before |-> db,
                                 datum |-> st.datum, updates |-> st.updates,
                                 returned |-> (st.exc = "none")]
                         /\ IF st.exc # "none"
                            THEN /\ db' = [db EXCEPT !.datum = st.datum]
                                 /\ run' = Idle
                            ELSE /\ db' = [db EXCEPT !.datum = st.datum,
                                       !.loaded[d] =
                                           record_file_mtime(@, disk[d].mtime)]
                                 /\ run' = [run EXCEPT !.todo = Tail(@)]
                         /\ tx' = db'
    /\ UNCHANGED <<collation, disk, runs, pulls, loads, flag_used, interrupted,
                   otherVars>>

\* refresh_files and main() return.
EndRun ==
    /\ run.phase = "refresh"
    /\ run.todo = <<>>
    /\ run' = Idle
    /\ UNCHANGED <<collation, disk, db, tx, runs, pulls, loads, flag_used,
                   interrupted, refresh_log, otherVars>>

\* The program is killed.
Interrupt ==
    /\ run.phase # "idle"
    /\ Abort(run.phase \in {"file", "commit"})
    /\ UNCHANGED <<collation, disk, db, runs, pulls, loads, flag_used,
                   refresh_log, otherVars>>

(***************************************************************************)
(* direct_plot.py: Day                                                     *)
(***************************************************************************)

\* The rows of a query are for ordinal dates 1..MaxDay.
MaxDay == 4
\* The largest cumulative case count of a row.
MaxCount == 2
\* The largest args.days.
MaxWindow == 3

\* define_columns()
Column(field, computed_type, depended_field, depended_field2) ==
    [field |-> field, computed_type |-> computed_type,
     depended_field |-> depended_field, depended_field2 |-> depended_field2]

define_columns ==
    <<Column("conf_num", "", "", ""),
      Column("computed_active", "active", "conf_num", "deaths_num"),
      Column("daily_conf", "vel", "conf_num", ""),
      Column("avg_daily_conf", "rolling_average", "daily_conf", ""),
      Column("deaths_num", "", "", ""),
      Column("daily_deaths", "vel", "deaths_num", ""),
      Column("avg_daily_deaths", "rolling_average", "daily_deaths", "")>>

\* Day.__init__: every column's field is 0, then the counts are set.  The
\* date is kept as the ordinal date it was made from.  The averages are in
\* units of 0.01.
Day(date, conf_num, deaths_num, parent_conf_num, parent_deaths_num) ==
    [f \in {define_columns[i].field : i \in 1..Len(define_columns)}
           \cup {"date", "parent_conf_num", "parent_deaths_num"} |->
        IF f = "date" THEN date
        ELSE IF f = "conf_num" THEN conf_num
        ELSE IF f = "deaths_num" THEN deaths_num
        ELSE IF f = "parent_conf_num" THEN parent_conf_num
        ELSE IF f = "parent_deaths_num" THEN parent_deaths_num
        ELSE 0]

\* A row of a query: (ordinal_date, cases, deaths).
Row(date, cases, deaths) == <<date, cases, deaths>>

\* Day.fill_data_list with every added triple a copy of the datum reached.
RECURSIVE fill_with_next(_, _, _, _, _)
fill_with_next(data_list, i, prev_date, prev_cases, prev_deaths) ==
    IF i > Len(data_list) THEN <<>>
    ELSE LET datum == data_list[i] IN
         [k \in 1..(datum[1] - prev_date - 1) |->
             Row(prev_date + k, datum[2], datum[3])]
         \o <<datum>>
         \o fill_with_next(data_list, i + 1, datum[1], datum[2], datum[3])

\* Day.fill_data_list: the loop from datum i on.
RECURSIVE fill_from(_, _, _, _, _)
fill_from(data_list, i, prev_date, prev_cases, prev_deaths) ==
    IF i > Len(data_list) THEN <<>>
    ELSE LET datum == data_list[i] IN
         (IF datum[1] # prev_date + 1
          THEN [k \in 1..(datum[1] - prev_date - 1) |->
                   Row(prev_date + k, prev_cases, prev_deaths)]
          ELSE <<>>)
         \o <<datum>>
         \o fill_from(data_list, i + 1, datum[1], datum[2], datum[3])

\* Day.fill_data_list(data_list)
fill_data_list(data_list) ==
    fill_from(data_list, 1, data_list[1][1] - 1, 0, 0)

\* The parent rows of set_data: None or a list.
NoParent == [given |-> FALSE, rows |-> <<>>]
Parent(rows) == [given |-> TRUE, rows |-> rows]

\* parent_data[n:] for the first n with a date not before the location's
\* first date (the loop of fixup_missing_location_data).
RECURSIVE truncate_parent(_, _)
truncate_parent(first_date, rows) ==
    IF rows = <<>> THEN [status |-> "kept", rows |-> <<>>]
    ELSE IF first_date > rows[1][1] THEN
        LET rest == truncate_parent(first_date, Tail(rows)) IN
        IF rest.status = "kept" THEN [status |-> "kept", rows |-> rows] ELSE rest
    ELSE IF first_date # rows[1][1] THEN [status |-> "exit", rows |-> rows]
    ELSE [status |-> "cut", rows |-> rows]

\* Day.fixup_missing_location_data
fixup_missing_location_data(loc, par) ==
    IF par = <<>> THEN [status |-> "IndexError", location |-> loc, parent |-> par]
    ELSE
        LET cut == IF loc[1][1] = par[1][1] THEN [status |-> "cut", rows |-> par]
                   ELSE IF loc[1][1] < par[1][1] THEN [status |-> "exit", rows |-> par]
                   ELSE truncate_parent(loc[1][1], par)
            p == cut.rows
        IN  IF cut.status = "exit" THEN [status |-> "exit", location |-> loc, parent |-> p]
            ELSE IF loc[Len(loc)][1] # p[Len(p)][1]
            THEN [status |-> "exit", location |-> loc, parent |-> p]
            ELSE IF Len(p) < Len(loc)
            THEN [status |-> "exit", location |-> loc, parent |-> p]
            ELSE IF Len(fill_data_list(loc)) # Len(fill_data_list(p))
            THEN [status |-> "exit", location |-> fill_data_list(loc),
                  parent |-> fill_data_list(p)]
            ELSE [status |-> "filled", location |-> fill_data_list(loc),
                  parent |-> fill_data_list(p)]

\* Day.set_data up to the loop that creates the days.
needs_fixup(loc, par) ==
    /\ par.given
    /\ \/ Len(loc) # Len(par.rows)
       \/ loc[1][1] # par.rows[1][1]
       \/ loc[Len(loc)][1] # par.rows[Len(par.rows)][1]

\* The days set_data creates from the two lists.
create_days(loc, par) ==
    [n \in 1..Len(loc) |->
        IF par.given
        THEN Day(loc[n][1], loc[n][2], loc[n][3], par.rows[n][2], par.rows[n][3])
        ELSE Day(loc[n][1], loc[n][2], loc[n][3], 0, 0)]

\* Day.compute_vel_acc with the difference taken the wrong way round.
RECURSIVE compute_vel_acc_reversed(_, _, _, _)
compute_vel_acc_reversed(self, prev, dependence_type, c) ==
    IF c > Len(define_columns) THEN self
    ELSE LET column == define_columns[c] IN
         IF column.computed_type = dependence_type
         THEN compute_vel_acc_reversed(
                  [self EXCEPT ![column.field] =
                      prev[column.depended_field] - self[column.depended_field]],
                  prev, dependence_type, c + 1)
         ELSE compute_vel_acc_reversed(self, prev, dependence_type, c + 1)

\* Day.compute_vel_acc: the loop over Day.columns from column c on.
RECURSIVE compute_vel_acc(_, _, _, _)
compute_vel_acc(self, prev, dependence_type, c) ==
    IF c > Len(define_columns) THEN self
    ELSE LET column == define_columns[c] IN
         IF column.computed_type = dependence_type
         THEN compute_vel_acc(
                  [self EXCEPT ![column.field] =
                      self[column.depended_field] - prev[column.depended_field]],
                  prev, dependence_type, c + 1)
         ELSE compute_vel_acc(self, prev, dependence_type, c + 1)

\* round(100.0 * (value / base), 1) in units of 0.1: the nearest, a tie
\* going to the even one.  base is not 0.
round_ratio(num, den) ==
    LET n == IF den < 0 THEN 0 - num ELSE num
        d == IF den < 0 THEN 0 - den ELSE den
        q == n \div d
        r == n - q * d
    IN  IF 2 * r < d THEN q
        ELSE IF 2 * r > d THEN q + 1
        ELSE IF q % 2 = 0 THEN q ELSE q + 1

\* Day.compute_pct: the loop over Day.columns from column c on ("": the
\* empty string the code stores when the base is 0, kept here as 0).
RECURSIVE compute_pct(_, _)
compute_pct(self, c) ==
    IF c > Len(define_columns) THEN self
    ELSE LET column == define_columns[c] IN
         IF column.computed_type = "pct"
         THEN compute_pct(
                  [self EXCEPT ![column.field] =
                      IF self[column.depended_field2] = 0 THEN 0
                      ELSE round_ratio(1000 * self[column.depended_field],
                                       self[column.depended_field2])],
                  c + 1)
         ELSE compute_pct(self, c + 1)

\* Day.compute_pcts_velocities_accelerations: the loop from day n on (the
\* first day is all_days[1] here, all_days[0] in the code).
RECURSIVE compute_pcts_velocities_accelerations(_, _)
compute_pcts_velocities_accelerations(days, n) ==
    IF n > Len(days) THEN days
    ELSE LET yesterday == days[n - 1]
             today ==
                 compute_vel_acc(
                     compute_vel_acc(compute_pct(days[n], 1), yesterday, "vel", 1),
                     yesterday, "acc", 1)
         IN  compute_pcts_velocities_accelerations(
                 [days EXCEPT ![n] = today], n + 1)

\* past[-(days + 1):]
tail_slice_one_more(past, days) ==
    IF days + 1 >= Len(past) THEN past
    ELSE SubSeq(past, Len(past) - days, Len(past))

\* Day.past_accelerations[-args.days:] for args.days >= 0 (-0 is 0: the
\* whole list).
tail_slice(past, days) ==
    IF days = 0 \/ days >= Len(past) THEN past
    ELSE SubSeq(past, Len(past) - days + 1, Len(past))

RECURSIVE Sum(_)
Sum(s) == IF s = <<>> THEN 0 ELSE Head(s) + Sum(Tail(s))

\* round(statistics.mean(values), 2) in units of 0.01.
round_mean(values) == round_ratio(100 * Sum(values), Len(values))

\* Day.compute_rolling_average: the loop over the days from day n on for
\* one rolling_average column.
RECURSIVE rolling_days(_, _, _, _, _)
rolling_days(days, column, past_accelerations, window, n) ==
    IF n > Len(days) THEN days
    ELSE LET past == Append(past_accelerations, days[n][column.depended_field])
         IN  rolling_days(
                 [days EXCEPT ![n][column.field] =
                     round_mean(tail_slice(past, window))],
                 column, past, window, n + 1)

\* Day.compute_rolling_average: the loop over Day.columns from column c on.
RECURSIVE compute_rolling_average(_, _, _)
compute_rolling_average(days, window, c) ==
    IF c > Len(define_columns) THEN days
    ELSE IF define_columns[c].computed_type = "rolling_average"
    THEN compute_rolling_average(
             rolling_days(days, define_columns[c], <<>>, window, 1), window, c + 1)
    ELSE compute_rolling_average(days, window, c + 1)

\* Lists of rows of strictly increasing dates from..MaxDay.
IncreasingDates(from) ==
    {s \in UNION {[1..k -> from..MaxDay] : k \in 0..(MaxDay - from + 1)} :
        \A i \in 1..Len(s) - 1 : s[i] < s[i + 1]}

\* The focus location's rows: any case counts (a correction can lower a
\* cumulative count), half as many deaths.
LocationResults ==
    UNION {{[i \in 1..Len(ds) |-> Row(ds[i], cs[i], cs[i] \div 2)] :
               cs \in [1..Len(ds) -> 0..MaxCount]} :
           ds \in IncreasingDates(1) \ {<<>>}}

\* The parent's rows: the query asks for the dates from the location's first
\* date on.
ParentResults(first_date) ==
    {NoParent} \cup
    {Parent([i \in 1..Len(ds) |-> Row(ds[i], 10 + ds[i], ds[i])]) :
        ds \in IncreasingDates(first_date)}

PlotStart ==
    /\ days_arg \in 0..MaxWindow
    /\ location_result \in LocationResults
    /\ parent_result \in ParentResults(location_result[1][1])
    /\ location_data = <<>>
    /\ parent_data = NoParent
    /\ all_days = <<>>
    /\ plot_pc = "queried"

PlotIdle ==
    /\ days_arg = 0
    /\ location_result = <<>>
    /\ parent_result = NoParent
    /\ location_data = <<>>
    /\ parent_data = NoParent
    /\ all_days = <<>>
    /\ plot_pc = "queried"

plotOthers == <<filesVars, lineVars, mtimeVars, loadVars, laterVars>>

\* Day.set_data(location_data, parent_data)
SetData ==
    /\ plot_pc = "queried"
    /\ IF needs_fixup(location_result, parent_result)
       THEN LET fixed == fixup_missing_location_data(location_result,
                                                     parent_result.rows)
            IN  /\ location_data' = fixed.location
                /\ parent_data' = Parent(fixed.parent)
                /\ IF fixed.status = "filled"
                   THEN /\ all_days' = create_days(fixed.location, Parent(fixed.parent))
                        /\ plot_pc' = "set"
                   ELSE /\ all_days' = <<>>
                        /\ plot_pc' = fixed.status
       ELSE /\ location_data' = location_result
            /\ parent_data' = parent_result
            /\ all_days' = create_days(location_result, parent_result)
            /\ plot_pc' = "set"
    /\ UNCHANGED <<days_arg, location_result, parent_result, plotOthers>>

\* Day.compute_pcts_velocities_accelerations()
ComputePctsVelocitiesAccelerations ==
    /\ plot_pc = "set"
    /\ all_days' = compute_pcts_velocities_accelerations(all_days, 2)
    /\ plot_pc' = "computed"
    /\ UNCHANGED <<days_arg, location_result, parent_result, location_data,
                   parent_data, plotOthers>>

\* Day.compute_rolling_average()
ComputeRollingAverage ==
    /\ plot_pc = "computed"
    /\ all_days' = compute_rolling_average(all_days, days_arg, 1)
    /\ plot_pc' = "averaged"
    /\ UNCHANGED <<days_arg, location_result, parent_result, location_data,
                   parent_data, plotOthers>>

(***************************************************************************)
(* load_bc_regional_data.py                                                *)
(***************************************************************************)

\* The CSV has rows for the first MaxBcDays days.
MaxBcDays == 2
\* The CSV has at most MaxBcRows rows.
MaxBcRows == 3
\* Cases_Reported is 1..MaxBcCases.
MaxBcCases == 2
\* load_bc_data is run at most MaxBcRuns times.
MaxBcRuns == 2

\* The Date field of the k-th day: 2021-12-31, 2022-01-01, 2022-01-02, ...
BcDate(k) == IF k = 1 THEN [y |-> 2021, m |-> 12, d |-> 31]
             ELSE [y |-> 2022, m |-> 1, d |-> k - 1]

\* date_handling.bc_date_to_ordinal_date
bc_date_to_ordinal_date(string_date) ==
    ToOrdinal(string_date.y, string_date.m, string_date.d)

\* A row of the CSV.  A name is kept as the sequence of the strings it is
\* joined from.
BcRow(k, ha, hsda, cases) ==
    [Date |-> BcDate(k), HA |-> <<ha>>, HSDA |-> <<hsda>>, Cases_Reported |-> cases]

\* The rows a day can have: an HSDA, the HA's "All", the province's "All".
BcRowsOfDay(k) ==
    {BcRow(k, h[1], h[2], cases) :
        h \in {<<"Fraser", "Fraser East">>, <<"Fraser", "All">>, <<"All", "All">>},
        cases \in 1..MaxBcCases}

\* The downloads: rows in date order.
BcDownloads ==
    {csv \in UNION {[1..n -> UNION {BcRowsOfDay(k) : k \in 1..MaxBcDays}] :
                       n \in 1..MaxBcRows} :
        \A i \in 1..Len(csv) - 1 :
            bc_date_to_ordinal_date(csv[i].Date)
                <= bc_date_to_ordinal_date(csv[i + 1].Date)}

BcEmptyDb == [location |-> {}, datum |-> {}]

\* The HSDA a row is counted under: hsda, or ha + '-All'.
bc_hsda(row) == IF row.HSDA = <<"All">> THEN row.HA \o <<"-All">> ELSE row.HSDA

\* ', '.join([hsda, 'British Columbia', 'Canada'])
bc_jhu_key(hsda) == hsda \o <<", ", "British Columbia", ", ", "Canada">>

\* get_bc_location_record: the database after it, with the location added
\* if it was not there.
get_bc_location_record(dbs, hsda) ==
    IF \E l \in dbs.location : l.jhu_key = bc_jhu_key(hsda)
    THEN dbs
    ELSE [dbs EXCEPT !.location = @ \cup
             {[id |-> Cardinality(dbs.location) + 1,
               jhu_key |-> bc_jhu_key(hsda), country |-> "Canada",
               admin1 |-> "British Columbia", admin2 |-> hsda]}]

\* The datums the query of process_bc_row finds, were it to look at the
\* committed rows only.
bc_found_committed(dbs, committed, jhu_key, ordinal_date) ==
    {m \in committed.datum : m.location_jhu_key = jhu_key
                             /\ m.ordinal_date = ordinal_date}

\* The datums the query of process_bc_row finds: the session flushes what it
\* holds before it queries.
bc_found(dbs, committed, jhu_key, ordinal_date) ==
    {m \in dbs.datum : m.location_jhu_key = jhu_key
                       /\ m.ordinal_date = ordinal_date}

\* total_counts[hsda], or 0
bc_current_total(counts, hsda) ==
    IF hsda \in DOMAIN counts THEN counts[hsda] ELSE 0

\* total_counts after the row was counted
bc_counted(counts, hsda, new_count) ==
    [h \in DOMAIN counts \cup {hsda} |->
        IF h = hsda THEN bc_current_total(counts, hsda) + new_count ELSE counts[h]]

\* total_counts after a row whose datum is already in the database, were it
\* counted only when its datum is inserted.
bc_counted_when_inserted(counts, hsda, new_count) == counts

\* total_counts after a row whose datum is already in the database.
bc_counted_when_found(counts, hsda, new_count) == bc_counted(counts, hsda, new_count)

\* The Datum process_bc_row inserts.
bc_datum(dbs, ordinal_date, hsda, confirmed) ==
    [id |-> Cardinality(dbs.datum) + 1, ordinal_date |-> ordinal_date,
     confirmed |-> confirmed, location_jhu_key |-> bc_jhu_key(hsda),
     active |-> 0, deaths |-> 0, recovered |-> 0, incidence_rate |-> 0,
     case_fatality_ratio |-> 0]

\* process_bc_row(session, row): the session's database, total_counts and
\* what happened.
process_bc_row(dbs, committed, counts, row) ==
    LET ordinal_date == bc_date_to_ordinal_date(row.Date)
        hsda == bc_hsda(row)
        located == get_bc_location_record(dbs, hsda)
    IN  IF row.HSDA = <<"All">> /\ row.HA = <<"All">>
        THEN [db |-> dbs, counts |-> counts, did |-> "ignored"]
        ELSE IF bc_found(located, committed, bc_jhu_key(hsda), ordinal_date) # {}
        THEN [db |-> located,
              counts |-> bc_counted_when_found(counts, hsda, row.Cases_Reported),
              did |-> "found"]
        ELSE [db |-> [located EXCEPT !.datum = @ \cup
                         {bc_datum(located, ordinal_date, hsda,
                              bc_counted(counts, hsda, row.Cases_Reported)[hsda])}],
              counts |-> bc_counted(counts, hsda, row.Cases_Reported),
              did |-> "inserted"]

BcNoRow == [did |-> "none", before |-> BcEmptyDb]

BcStart ==
    /\ bc_csv = <<>>
    /\ bc_i = 0
    /\ total_counts = <<>>
    /\ bc_db = BcEmptyDb
    /\ bc_tx = BcEmptyDb
    /\ bc_runs = 0
    /\ bc_row_log = BcNoRow

BcIdle == BcStart

bcOthers == <<filesVars, lineVars, mtimeVars, loadVars, plotVars, ruVars, timerVars, dailysVars, showVars>>

\* A run starts: the module is imported (total_counts = {}) and
\* load_bc_data downloads the CSV.
LoadBcData ==
    /\ bc_csv = <<>>
    /\ bc_runs < MaxBcRuns
    /\ bc_runs' = bc_runs + 1
    /\ bc_csv' \in BcDownloads
    /\ bc_i' = 0
    /\ total_counts' = <<>>
    /\ bc_tx' = bc_db
    /\ bc_row_log' = BcNoRow
    /\ UNCHANGED <<bc_db, bcOthers>>

\* process_bc_row(session, row) for the next row of the reader.
ProcessBcRow ==
    /\ bc_i < Len(bc_csv)
    /\ LET done == process_bc_row(bc_tx, bc_db, total_counts, bc_csv[bc_i + 1])
       IN  /\ bc_tx' = done.db
           /\ total_counts' = done.counts
           /\ bc_row_log' = [did |-> done.did, before |-> bc_tx]
    /\ bc_i' = bc_i + 1
    /\ UNCHANGED <<bc_csv, bc_db, bc_runs, bcOthers>>

\* session.commit() after the last row; the run is over.
CommitBcData ==
    /\ bc_csv # <<>>
    /\ bc_i = Len(bc_csv)
    /\ bc_db' = bc_tx
    /\ bc_csv' = <<>>
    /\ bc_i' = 0
    /\ UNCHANGED <<bc_tx, total_counts, bc_runs, bc_row_log, bcOthers>>

(***************************************************************************)
(* remove_updated_files.py                                                 *)
(***************************************************************************)

\* updated_files.txt has at most MaxListed lines.
MaxListed == 2

\* The file names of the lines: daily reports of the first of a month, one
\* of them of no month, and a file that is no daily report.
RuNames == {f \in DatedNames : f.dd = 1 /\ f.yyyy = 2020} \cup OtherNames

\* The dates the database has data of.
RuDates == {filename_to_ordinal_date(f) : f \in {g \in RuNames : g.kind = "dated"
                                                                  /\ IsCalendarDate(g)}}

\* A line of a git pull listing: " <directory>/<file name>   |   2 +-".
RuLine(f) == [directory |-> "csse_covid_19_daily_reports", filename |-> f,
              changes |-> "2 +-"]

RuListings == UNION {[1..n -> {RuLine(f) : f \in RuNames}] : n \in 0..MaxListed}

\* The databases: data of two locations for any of the dates, and the
\* last_date row.
RuDatum(ordinal_date, key) ==
    [ordinal_date |-> ordinal_date, location_jhu_key |-> key]

RuDatabases ==
    [location : {{"Bibb, Alabama, US", "Desoto, Florida, US"}},
     datum : SUBSET {RuDatum(d, k) : d \in RuDates,
                                     k \in {"Bibb, Alabama, US", "Desoto, Florida, US"}},
     last_date : RuDates]

\* get_ordinal_date_from_filename(line): strptime raises ValueError on a
\* name that is no date.
get_ordinal_date_from_filename(line) ==
    IF line.filename.kind = "dated" /\ IsCalendarDate(line.filename)
    THEN [status |-> "returned",
          ordinal_date |-> filename_to_ordinal_date(line.filename)]
    ELSE [status |-> "ValueError", ordinal_date |-> 0]

\* DELETE FROM datum WHERE ordinal_date <= ?
delete_data_up_to_ordinal_date(dbs, ordinal_date) ==
    [dbs EXCEPT !.datum = {r \in @ : ~(r.ordinal_date <= ordinal_date)}]

\* delete_data_for_ordinal_date(ordinal_date)
delete_data_for_ordinal_date(dbs, ordinal_date) ==
    [dbs EXCEPT !.datum = {r \in @ : ~(r.ordinal_date = ordinal_date)}]

RuStart ==
    /\ ru_lines \in RuListings
    /\ ru_i = 0
    /\ ru_db \in RuDatabases
    /\ ru_db0 = ru_db
    /\ ru_status = "running"

RuIdle ==
    /\ ru_lines = <<>>
    /\ ru_i = 0
    /\ ru_db = [location |-> {}, datum |-> {}, last_date |-> 0]
    /\ ru_db0 = ru_db
    /\ ru_status = "running"

ruOthers == <<filesVars, lineVars, mtimeVars, loadVars, plotVars, bcVars, timerVars, dailysVars, showVars>>

\* The body of main()'s loop for the next line.
RemoveOneLine ==
    /\ ru_status = "running"
    /\ ru_i < Len(ru_lines)
    /\ LET got == get_ordinal_date_from_filename(ru_lines[ru_i + 1])
       IN  IF got.status = "returned"
           THEN /\ ru_db' = delete_data_for_ordinal_date(ru_db, got.ordinal_date)
                /\ ru_i' = ru_i + 1
                /\ UNCHANGED ru_status
           ELSE /\ ru_status' = got.status
                /\ UNCHANGED <<ru_db, ru_i>>
    /\ UNCHANGED <<ru_lines, ru_db0, ruOthers>>

\* main() returns after the last line.
RemoveDone ==
    /\ ru_status = "running"
    /\ ru_i = Len(ru_lines)
    /\ ru_status' = "done"
    /\ UNCHANGED <<ru_lines, ru_i, ru_db, ru_db0, ruOthers>>

(***************************************************************************)
(* timer.py                                                                *)
(***************************************************************************)

\* time.perf_counter() returns 0..MaxClock.
MaxClock == 4

\* None
None == [is_none |-> TRUE, value |-> 0]
Some(v) == [is_none |-> FALSE, value |-> v]

\* Timer.__init__
timer_init == [start_time |-> None, elapsed_time |-> None]

\* Timer.stop with _start_time left as it is.
timer_stop_keeps_start(self, now) ==
    IF self.start_time = None
    THEN [raised |-> "TimerError", self |-> self]
    ELSE [raised |-> "",
          self |-> [start_time |-> self.start_time,
                    elapsed_time |-> Some(now - self.start_time.value)]]

\* Timer.start
timer_start(self, now) ==
    IF self.start_time # None
    THEN [raised |-> "TimerError", self |-> self]
    ELSE [raised |-> "", self |-> [self EXCEPT !.start_time = Some(now)]]

\* Timer.stop
timer_stop(self, now) ==
    IF self.start_time = None
    THEN [raised |-> "TimerError", self |-> self]
    ELSE [raised |-> "",
          self |-> [start_time |-> None,
                    elapsed_time |-> Some(now - self.start_time.value)]]

\* Timer.reset
timer_reset(self, now) == [raised |-> "", self |-> timer_init]

timer_self == [start_time |-> start_time, elapsed_time |-> elapsed_time]

TimerStart ==
    /\ perf_counter = 0
    /\ start_time = None
    /\ elapsed_time = None
    /\ timer_call = [name |-> "__init__", raised |-> "", before |-> timer_init]
    /\ timer_last_ok = "__init__"

TimerIdle == TimerStart

timerOthers == <<filesVars, lineVars, mtimeVars, loadVars, plotVars, bcVars, ruVars, dailysVars, showVars>>

\* The effect of a call on the variables.
TimerCalled(name, done) ==
    /\ start_time' = done.self.start_time
    /\ elapsed_time' = done.self.elapsed_time
    /\ timer_call' = [name |-> name, raised |-> done.raised, before |-> timer_self]
    /\ timer_last_ok' = IF done.raised = "" THEN name ELSE timer_last_ok
    /\ UNCHANGED <<perf_counter, timerOthers>>

\* Time passes.
Tick ==
    /\ perf_counter < MaxClock
    /\ perf_counter' = perf_counter + 1
    /\ UNCHANGED <<start_time, elapsed_time, timer_call, timer_last_ok, timerOthers>>

\* timer.start()
TimerStartCall ==
    /\ perf_counter \in 0..MaxClock
    /\ TimerCalled("start", timer_start(timer_self, perf_counter))

\* timer.stop()
TimerStopCall ==
    /\ perf_counter \in 0..MaxClock
    /\ TimerCalled("stop", timer_stop(timer_self, perf_counter))

\* timer.reset()
TimerResetCall ==
    /\ perf_counter \in 0..MaxClock
    /\ TimerCalled("reset", timer_reset(timer_self, perf_counter))

(***************************************************************************)
(* from_dailys.py                                                          *)
(***************************************************************************)

\* compute_trajectory is given at most MaxTrajectory days.
MaxTrajectory == 7
\* Confirmed of a day is 0..MaxConfirmed.
MaxConfirmed == 2

\* a < b for two names of the shape dd-dd-dddd.csv compared as strings: the
\* month digits first, then the day digits, then the year digits.
dailys_name_less(a, b) ==
    \/ a.mm < b.mm
    \/ a.mm = b.mm /\ a.dd < b.dd
    \/ a.mm = b.mm /\ a.dd = b.dd /\ a.yyyy < b.yyyy

\* Insert f behind every element that is not larger.
RECURSIVE dailys_insert(_, _)
dailys_insert(sorted, f) ==
    IF sorted = <<>> THEN <<f>>
    ELSE IF dailys_name_less(f, Head(sorted)) THEN <<f>> \o sorted
    ELSE <<Head(sorted)>> \o dailys_insert(Tail(sorted), f)

\* sorted(filtered)
RECURSIVE dailys_sorted(_)
dailys_sorted(filtered) ==
    IF filtered = <<>> THEN <<>>
    ELSE dailys_insert(dailys_sorted(SubSeq(filtered, 1, Len(filtered) - 1)),
                       filtered[Len(filtered)])

\* from_dailys.get_files(from_dir)
dailys_get_files(all_files) ==
    [status |-> "returned", files |-> dailys_sorted(Filtered(all_files))]

\* A day as process_file returns it (Deaths, Recovered and Active are not
\* read by compute_trajectory).
TrajectoryDay(confirmed) == [Confirmed |-> confirmed]

TrajectoryInputs ==
    UNION {[1..n -> {TrajectoryDay(c) : c \in 0..MaxConfirmed}] : n \in 0..MaxTrajectory}

\* The first loop of compute_trajectory from day n on (day 1 is days[0]).
RECURSIVE trajectory_loop(_, _)
trajectory_loop(days, n) ==
    IF n > Len(days) THEN days
    ELSE LET velocity == days[n].Confirmed - days[n - 1].Confirmed
         IN  trajectory_loop(
                 [days EXCEPT ![n] =
                     [Confirmed |-> days[n].Confirmed, Velocity |-> velocity,
                      Acceleration |-> velocity - days[n - 1].Velocity]],
                 n + 1)

\* five_days[-4:]
last_four(five_days) ==
    IF Len(five_days) <= 4 THEN five_days
    ELSE SubSeq(five_days, Len(five_days) - 3, Len(five_days))

\* five_days[-5:]
last_five(five_days) ==
    IF Len(five_days) <= 5 THEN five_days
    ELSE SubSeq(five_days, Len(five_days) - 4, Len(five_days))

\* statistics.mean(data) of integers: the quotient, kept as the fraction.
statistics_mean(data) == [sum |-> Sum(data), n |-> Len(data)]

\* The second loop of compute_trajectory from day n on.
RECURSIVE smooth_loop(_, _, _)
smooth_loop(days, five_days, n) ==
    IF n > Len(days) THEN days
    ELSE LET five == last_five(Append(five_days, days[n].Acceleration))
         IN  smooth_loop(
                 [days EXCEPT ![n] =
                     [Confirmed |-> days[n].Confirmed, Velocity |-> days[n].Velocity,
                      Acceleration |-> days[n].Acceleration,
                      Smooth_Acceleration |-> statistics_mean(five)]],
                 five, n + 1)

\* compute_trajectory(days): days[0] of an empty list raises IndexError.
compute_trajectory(days) ==
    IF days = <<>> THEN [status |-> "IndexError", days |-> days]
    ELSE [status |-> "returned",
          days |-> smooth_loop(
                       trajectory_loop(
                           [days EXCEPT ![1] =
                               [Confirmed |-> days[1].Confirmed, Velocity |-> 0,
                                Acceleration |-> 0]], 2),
                       <<>>, 1)]

DailysIdle ==
    /\ dailys_files = NotCalled
    /\ traj_days = <<>>
    /\ traj_status = "not called"

TrajectoryStart ==
    /\ dailys_files = NotCalled
    /\ traj_days \in TrajectoryInputs
    /\ traj_status = "not called"

dailysOthers == <<lineVars, mtimeVars, loadVars, plotVars, bcVars, ruVars, timerVars, showVars>>

\* files = get_files(path) of from_dailys.py
DailysGetFiles ==
    /\ dailys_files = NotCalled
    /\ dailys_files' = dailys_get_files(listing)
    /\ UNCHANGED <<filesVars, traj_days, traj_status, dailysOthers>>

\* compute_trajectory(days)
ComputeTrajectory ==
    /\ traj_status = "not called"
    /\ traj_days' = compute_trajectory(traj_days).days
    /\ traj_status' = compute_trajectory(traj_days).status
    /\ UNCHANGED <<filesVars, dailys_files, dailysOthers>>

(***************************************************************************)
(* direct_plot.py: compute_active and plot_it                              *)
(***************************************************************************)

\* args.death_lag is 0..MaxDeathLag.
MaxDeathLag == 1

\* Day.compute_active_today(healed_day): the loop over Day.columns from
\* column c on.
RECURSIVE compute_active_today(_, _, _)
compute_active_today(self, healed_day, c) ==
    IF c > Len(define_columns) THEN self
    ELSE LET column == define_columns[c] IN
         IF column.computed_type = "active"
         THEN compute_active_today(
                  [self EXCEPT ![column.field] =
                      self[column.depended_field]
                      - (healed_day[column.depended_field]
                         + (self[column.depended_field2]
                            - healed_day[column.depended_field2]))],
                  healed_day, c + 1)
         ELSE compute_active_today(self, healed_day, c + 1)

\* Day.compute_active(): range(15, len(Day.all_days)) is the days 16.. here,
\* all_days[n-14] the day 14 before.
compute_active(days) ==
    [n \in 1..Len(days) |->
        IF n >= 16 THEN compute_active_today(days[n], days[n - 14], 1) ELSE days[n]]

\* What a division raises.  The sums the database returns are int or, under
\* MySQL, Decimal: a Decimal 0 / 0 raises decimal.InvalidOperation, every
\* other division by zero a ZeroDivisionError (decimal.DivisionByZero is
\* one).
division(num, den, is_decimal) ==
    IF den # 0 THEN ""
    ELSE IF is_decimal /\ num = 0 THEN "InvalidOperation"
    ELSE "ZeroDivisionError"

\* An outcome of plot_it: what it raised, while making which title.
PlotOutcome(status, title) == [status |-> status, title |-> title]

\* s[-k] of a list with at least k elements
from_end(s, k) == s[Len(s) - k + 1]

\* plot_it(focus, parent_focus) up to plt.show(): the first exception that
\* leaves it.  a.display_days, a.death_lag: the arguments; a.is_decimal:
\* what the database returns; a.focus_population: what get_population
\* returns.  The percentages of the parent, of the rolling averages and of
\* the population are made under a test of the denominator or inside try,
\* and raise nothing.
plot_it(days, active, a) ==
    LET shown == tail_slice(days, a.display_days)
        cases == IF active THEN from_end(shown, 1).computed_active
                 ELSE from_end(shown, 1).conf_num
        confirmed_percentage ==
            IF a.focus_population > 0 /\ active
            THEN division(a.focus_population, cases, FALSE) ELSE ""
    IN  IF confirmed_percentage # ""
        THEN PlotOutcome(confirmed_percentage, "Cases")
        ELSE IF Len(shown) < 2
        THEN PlotOutcome("IndexError", "Daily New Cases")
        ELSE IF division(from_end(shown, 1).daily_conf,
                         from_end(shown, 2).conf_num, a.is_decimal) # ""
        THEN PlotOutcome(division(from_end(shown, 1).daily_conf,
                                  from_end(shown, 2).conf_num, a.is_decimal),
                         "Daily New Cases")
        ELSE IF a.death_lag + 1 > Len(shown)
        THEN PlotOutcome("exit", "Deaths Cumulative")
        ELSE IF division(from_end(shown, 1).deaths_num,
                         from_end(shown, a.death_lag + 1).conf_num,
                         a.is_decimal) # ""
        THEN PlotOutcome(division(from_end(shown, 1).deaths_num,
                                  from_end(shown, a.death_lag + 1).conf_num,
                                  a.is_decimal),
                         "Deaths Cumulative")
        ELSE IF division(from_end(shown, 1).deaths_num - from_end(shown, 2).deaths_num,
                         from_end(shown, 2).deaths_num, a.is_decimal) # ""
        THEN PlotOutcome(division(from_end(shown, 1).deaths_num
                                      - from_end(shown, 2).deaths_num,
                                  from_end(shown, 2).deaths_num, a.is_decimal),
                         "Daily New Deaths")
        ELSE PlotOutcome("shown", "")

\* The arguments and surroundings of plot_it.
PlotItInputs ==
    [display_days : {MaxDay - 2, 365}, death_lag : 0..MaxDeathLag,
     is_decimal : BOOLEAN, focus_population : {0, 1000}]

ShowStart ==
    /\ active_cases \in BOOLEAN
    /\ plot_shown = NotCalled

ShowIdle ==
    /\ active_cases = FALSE
    /\ plot_shown = NotCalled

showOthers == <<filesVars, lineVars, mtimeVars, loadVars, bcVars, ruVars,
                timerVars, dailysVars>>

\* if args.active_cases: Day.compute_active()
ComputeActive ==
    /\ plot_pc = "averaged"
    /\ active_cases
    /\ all_days' = compute_active(all_days)
    /\ plot_pc' = "active"
    /\ UNCHANGED <<days_arg, location_result, parent_result, location_data,
                   parent_data, active_cases, plot_shown, showOthers>>

\* plot_it(focus, parent_focus)
PlotIt ==
    /\ \/ plot_pc = "active"
       \/ plot_pc = "averaged" /\ ~active_cases
    /\ \E a \in PlotItInputs :
           plot_shown' = [status |-> plot_it(all_days, active_cases, a).status,
                          title |-> plot_it(all_days, active_cases, a).title,
                          inputs |-> a]
    /\ plot_pc' = "plotted"
    /\ UNCHANGED <<days_arg, location_result, parent_result, location_data,
                   parent_data, all_days, active_cases, showOthers>>

(***************************************************************************)
(* The specifications                                                      *)
(***************************************************************************)

\* file_handling.get_files on every listing.
InitFiles == FilesStart /\ LineIdle /\ MtimeIdle /\ LoadIdle /\ PlotIdle /\ BcIdle /\ RuIdle /\ TimerIdle /\ DailysIdle /\ ShowIdle
SpecFiles == InitFiles /\ [][GetFiles]_vars

\* LineDatum on every line.
InitLine == LineStart /\ FilesIdle /\ MtimeIdle /\ LoadIdle /\ PlotIdle /\ BcIdle /\ RuIdle /\ TimerIdle /\ DailysIdle /\ ShowIdle
SpecLine == InitLine /\ [][NewLineDatum]_vars

\* One file, its modification time and its Loaded record.
InitMtime == MtimeStart /\ FilesIdle /\ LineIdle /\ LoadIdle /\ PlotIdle /\ BcIdle /\ RuIdle /\ TimerIdle /\ DailysIdle /\ ShowIdle
NextMtime == Touch \/ NeedsRefreshing \/ RecordFileMtime
SpecMtime == InitMtime /\ [][NextMtime]_vars

\* main() of direct_plot.py on every query result.
InitPlot == PlotStart /\ FilesIdle /\ LineIdle /\ MtimeIdle /\ LoadIdle /\ BcIdle /\ RuIdle /\ TimerIdle /\ DailysIdle /\ ShowStart
NextPlot ==
    \/ SetData
    \/ ComputePctsVelocitiesAccelerations
    \/ ComputeRollingAverage
    \/ ComputeActive
    \/ PlotIt
SpecPlot == InitPlot /\ [][NextPlot]_vars

\* load_bc_data run again and again on the download of the day.
InitBc == BcStart /\ FilesIdle /\ LineIdle /\ MtimeIdle /\ LoadIdle /\ PlotIdle /\ RuIdle /\ TimerIdle /\ DailysIdle /\ ShowIdle
NextBc == LoadBcData \/ ProcessBcRow \/ CommitBcData
SpecBc == InitBc /\ [][NextBc]_vars

\* remove_updated_files.py on every listing and database.
InitRemove == RuStart /\ FilesIdle /\ LineIdle /\ MtimeIdle /\ LoadIdle /\ PlotIdle /\ BcIdle /\ TimerIdle /\ DailysIdle /\ ShowIdle
NextRemove == RemoveOneLine \/ RemoveDone
SpecRemove == InitRemove /\ [][NextRemove]_vars

\* Any sequence of calls on a Timer.
InitTimer == TimerStart /\ FilesIdle /\ LineIdle /\ MtimeIdle /\ LoadIdle /\ PlotIdle /\ BcIdle /\ RuIdle /\ DailysIdle /\ ShowIdle
NextTimer == Tick \/ TimerStartCall \/ TimerStopCall \/ TimerResetCall
SpecTimer == InitTimer /\ [][NextTimer]_vars

\* from_dailys.get_files on every listing.
InitDailys == FilesStart /\ DailysIdle /\ LineIdle /\ MtimeIdle /\ LoadIdle /\ PlotIdle /\ BcIdle /\ RuIdle /\ TimerIdle /\ ShowIdle
SpecDailys == InitDailys /\ [][DailysGetFiles]_vars

\* from_dailys.compute_trajectory on every list of days.
InitTrajectory == TrajectoryStart /\ FilesIdle /\ LineIdle /\ MtimeIdle /\ LoadIdle /\ PlotIdle /\ BcIdle /\ RuIdle /\ TimerIdle /\ ShowIdle
SpecTrajectory == InitTrajectory /\ [][ComputeTrajectory]_vars

\* load_database.py run again and again on a data directory that is updated
\* between the runs.
Init == LoadStart /\ FilesIdle /\ LineIdle /\ MtimeIdle /\ PlotIdle /\ BcIdle /\ RuIdle /\ TimerIdle /\ DailysIdle /\ ShowIdle
Next ==
    \/ Pull
    \/ RemoveUpdatedFiles
    \/ StartRun
    \/ SkipFile
    \/ OpenFile
    \/ ProcessLine
    \/ FinishFile
    \/ CommitFile
    \/ StartRefresh
    \/ SkipRefresh
    \/ RefreshFile
    \/ EndRun
    \/ Interrupt
Spec == Init /\ [][Next]_vars

(***************************************************************************)
(* The properties                                                          *)
(***************************************************************************)

\* The last line of the refreshed file whose upper-cased key is the row's.
last_line_of(lines, r) ==
    CHOOSE i \in 1..Len(lines) :
        /\ upper(lines[i].key) = upper(r.location_jhu_key)
        /\ \A j \in 1..Len(lines) :
               upper(lines[j].key) = upper(r.location_jhu_key) => j <= i

\* C1: after refresh_lines returns, every datum row of the file's date whose
\* upper-cased location_jhu_key is the upper-cased key of some line holds the
\* six values LineDatum parses from the last such line.
RefreshLinesMatchesLines ==
    (refresh_log.status = "called" /\ refresh_log.returned) =>
        \A r \in rows_for_day(refresh_log.before.datum, refresh_log.date) :
            (\E i \in 1..Len(refresh_log.lines) :
                upper(refresh_log.lines[i].key) = upper(r.location_jhu_key))
            => row_values(refresh_log.datum, r.id) =
                   Fields(LineDatum(
                       refresh_log.lines[last_line_of(refresh_log.lines, r)].raw))

RowIdentity(r) ==
    [id |-> r.id, ordinal_date |-> r.ordinal_date,
     location_jhu_key |-> r.location_jhu_key]

recorded_mtime(filetime) ==
    CHOOSE t \in 0..MaxMtime : format_mtime(t) = filetime

\* C3: needs_refreshing returns True exactly when the file has no Loaded
\* record or its mtime on disk is later than the recorded one, and False
\* when the two are equal.
NeedsRefreshingComparesTimes ==
    mt_call # NotCalled =>
        /\ (mt_call.status = "True") <=>
               \/ mt_call.filetime = NoRecord
               \/ /\ mt_call.filetime # NoRecord
                  /\ mt_call.current_mtime > recorded_mtime(mt_call.filetime)
        /\ (/\ mt_call.filetime # NoRecord
            /\ mt_call.current_mtime = recorded_mtime(mt_call.filetime))
               => mt_call.status = "False"

\* C4: as long as no run was given --load-missing-files, a file that is
\* being processed has a date after the recorded LastDate and was never
\* loaded and committed before, and no file's load is committed twice.
NoFileLoadedTwice ==
    ~flag_used =>
        /\ \A d \in Dates : loads[d] <= 1
        /\ run.phase = "file" =>
               /\ loads[run.cur] = 0
               /\ run.cur > db.last_date

\* A second run without --load-missing-files skipped the file the first run
\* loaded and loaded the file that arrived since.
SecondRunLoadedOnlyNewFile ==
    /\ ~flag_used
    /\ runs = 2
    /\ run.last = 1
    /\ loads[1] = 1
    /\ loads[2] = 1

\* A step that ends the program inside process_one_jhu_file.
CutShort == run.phase \in {"file", "commit"} /\ run'.phase = "idle"

\* The next run, given the flag, processes the file of the date.
Due(ordinal_date, flag, dbs) == ~skips(ordinal_date, dbs.last_date, flag, dbs)

\* C5 as stated: whenever the program ends inside process_one_jhu_file before
\* the commit that ends it, the database is as it was when the file was
\* opened and the next run, whatever its options, processes the file again.
LoadCutShortLeavesNothing ==
    [][CutShort =>
          /\ db' = run.opened_db
          /\ tx' = db'
          /\ Due(run.cur, FALSE, db')]_vars

\* C5 as amended: until the first commit issued for the file (the one of
\* record_file_mtime, or else the one of process_one_jhu_file) no step
\* changes the database, and that commit persists the datum rows, the
\* locations, LastDate and the Loaded record together; when the program ends
\* before it, the database is as it was when the file was opened, and the
\* file stays due for the next run given the same --load-missing-files
\* option, which starts it from its first line with nothing pending.
LoadAllOrNothing ==
    /\ [][(run.phase \in {"file", "commit"} /\ ~run.committed) =>
              \/ db' = db
              \/ /\ db' = tx'
                 /\ db'.last_date = run.cur
                 /\ db'.loaded[run.cur] = format_mtime(disk[run.cur].mtime)
                 /\ run'.phase \in {"commit", "load"}]_vars
    /\ [][(CutShort /\ ~run.committed) =>
              /\ db' = run.opened_db
              /\ tx' = db'
              /\ Due(run.cur, run.flag, db')]_vars
    /\ [][(run.phase = "load" /\ run'.phase = "file") =>
              /\ run'.line = 1
              /\ tx' = db']_vars
    /\ [](interrupted.date # 0 =>
              Due(interrupted.date, interrupted.flag, db))

\* The load of a file was cut short before anything of it was committed,
\* after the file of another date had been loaded.
LoadCutShortBeforeCommit ==
    /\ run.phase = "idle"
    /\ interrupted.date # 0
    /\ db.loaded[interrupted.date] = NoRecord
    /\ disk[interrupted.date].exists
    /\ \E r \in db.datum : r.ordinal_date # interrupted.date

\* C10: LineDatum raises for no line; a count whose column is blank, no
\* number or missing is zero, and a count whose column holds a number the
\* field's conversion reads is that number.
LineDatumNeverRaises ==
    line_datum # NotCalled =>
        /\ line_datum.status = "constructed"
        /\ \A c \in {"Confirmed", "Recovered", "Active"} :
               LET got == IF c = "Confirmed" THEN line_datum.confirmed
                          ELSE IF c = "Recovered" THEN line_datum.recovered
                          ELSE line_datum.active
               IN  /\ csv_line[c].kind \in {"absent", "None", "blank", "text"}
                       => got = 0
                   /\ csv_line[c].kind = "int" => got * 100000 = csv_line[c].e5
        /\ csv_line.Deaths.kind \in {"absent", "None", "blank", "text", "nan"}
               => line_datum.deaths = 0
        /\ csv_line.Deaths.kind = "int"
               => line_datum.deaths * 100000 = csv_line.Deaths.e5
        /\ csv_line.Incidence_rate.kind \in {"absent", "None", "blank", "text"}
               => line_datum.incidence_rate = 0
        /\ csv_line.Incidence_rate.kind \in {"int", "float"}
               => line_datum.incidence_rate = csv_line.Incidence_rate.e5
        /\ csv_line.Case_Fatality_Ratio.kind \in {"absent", "None", "blank", "text"}
               => line_datum.case_fatality_ratio = 0

\* daily series of the days lo..hi of a field
series(field, lo, hi) == [k \in 1..(hi - lo + 1) |-> all_days[lo + k - 1][field]]

\* avg (in units of 0.01) is the mean of values rounded to 2 decimals: no
\* other multiple of 0.01 is nearer to the mean.
IsRoundedMean(avg, values) ==
    LET diff == 100 * Sum(values) - avg * Len(values)
    IN  /\ 2 * diff <= Len(values)
        /\ 2 * (0 - diff) <= Len(values)

\* The trailing window of day n (the first day is day 1) for window size d.
window_start(n, d) == IF n - d + 1 > 1 THEN n - d + 1 ELSE 1

\* C6: after Day.compute_rolling_average with args.days = d >= 1, the
\* avg_daily_conf of every day is the mean, rounded to 2 decimals, of
\* daily_conf over the trailing window of at most d days that ends at the
\* day, and avg_daily_deaths likewise over daily_deaths; from the d-th day
\* on the window has exactly d days.
RollingAverageOverTrailingWindow ==
    (plot_pc = "averaged" /\ days_arg >= 1) =>
        \A n \in 1..Len(all_days) :
            /\ IsRoundedMean(all_days[n]["avg_daily_conf"],
                   series("daily_conf", window_start(n, days_arg), n))
            /\ IsRoundedMean(all_days[n]["avg_daily_deaths"],
                   series("daily_deaths", window_start(n, days_arg), n))
            /\ n >= days_arg =>
                   Len(series("daily_conf", window_start(n, days_arg), n)) = days_arg

\* A window of 3 days over 4 days: the first days have shorter windows, the
\* last has a full one of 3 of the 4 days, and its mean had to be rounded.
RollingAverageRoundedOverFullWindow ==
    /\ plot_pc = "averaged"
    /\ days_arg = 3
    /\ Len(all_days) = 4
    /\ all_days[2]["daily_conf"] # 0
    /\ Sum(series("daily_conf", 2, 4)) % 3 # 0
    /\ all_days[4]["avg_daily_deaths"] # 0

\* C7: after Day.compute_pcts_velocities_accelerations, daily_conf and
\* daily_deaths of every day but the first are the differences of conf_num
\* and deaths_num from the day before, those of the first day are 0, and
\* conf_num and deaths_num of every day are what set_data was given.
DailyValuesAreDifferences ==
    plot_pc = "computed" =>
        /\ Len(all_days) = Len(location_data)
        /\ \A n \in 1..Len(all_days) :
            /\ all_days[n]["conf_num"] = location_data[n][2]
            /\ all_days[n]["deaths_num"] = location_data[n][3]
            /\ n = 1 => /\ all_days[n]["daily_conf"] = 0
                        /\ all_days[n]["daily_deaths"] = 0
            /\ n > 1 => /\ all_days[n]["daily_conf"] =
                               location_data[n][2] - location_data[n - 1][2]
                        /\ all_days[n]["daily_deaths"] =
                               location_data[n][3] - location_data[n - 1][3]

\* The counts of three days rose and then fell, deaths included, and the
\* first day has cases.
DailyValuesRoseAndFell ==
    /\ plot_pc = "computed"
    /\ Len(all_days) >= 3
    /\ all_days[1]["conf_num"] > 0
    /\ all_days[2]["daily_conf"] > 0
    /\ all_days[3]["daily_conf"] < 0
    /\ all_days[2]["daily_deaths"] > 0
    /\ all_days[3]["daily_deaths"] < 0

\* the dates of a list of rows
dates_of(data_list) == {data_list[i][1] : i \in 1..Len(data_list)}

\* the last row of data_list dated before date
nearest_earlier(data_list, date) ==
    data_list[CHOOSE j \in 1..Len(data_list) :
                  /\ data_list[j][1] < date
                  /\ \A k \in 1..Len(data_list) :
                         data_list[k][1] < date => data_list[k][1] <= data_list[j][1]]

\* filled_list is data_list with its missing dates filled in.
IsFilled(data_list, filled_list) ==
    LET first == data_list[1][1]
        last == data_list[Len(data_list)][1]
    IN  /\ Len(filled_list) = last - first + 1
        /\ \A i \in 1..Len(filled_list) :
            /\ filled_list[i][1] = first + i - 1
            /\ IF filled_list[i][1] \in dates_of(data_list)
               THEN \E j \in 1..Len(data_list) : data_list[j] = filled_list[i]
               ELSE /\ filled_list[i][2] = nearest_earlier(data_list, first + i - 1)[2]
                    /\ filled_list[i][3] = nearest_earlier(data_list, first + i - 1)[3]

\* C8: Day.fill_data_list, given a non-empty list of rows of strictly
\* increasing dates, returns the rows of the consecutive dates from the first
\* date to the last, every row given among them unchanged, every added row
\* with the cases and deaths of the nearest earlier row given.
FillDataListFillsGaps ==
    (plot_pc = "set" /\ needs_fixup(location_result, parent_result)) =>
        /\ IsFilled(location_result, location_data)
        /\ IsFilled(parent_result.rows, parent_data.rows)

\* A gap of two days after a day with cases and deaths was filled in.
FilledGapOfTwoDays ==
    /\ plot_pc = "set"
    /\ needs_fixup(location_result, parent_result)
    /\ Len(location_result) = 2
    /\ Len(location_data) = 4
    /\ location_result[1][2] > 0
    /\ location_result[1][3] > 0
    /\ location_result[2][2] # location_result[1][2]
    /\ location_result[2][3] # location_result[1][3]

\* The rows lo..hi of the download that are counted under hsda.
RECURSIVE bc_cases(_, _, _)
bc_cases(csv, hsda, hi) ==
    IF hi = 0 THEN 0
    ELSE bc_cases(csv, hsda, hi - 1)
         + (IF ~(csv[hi].HSDA = <<"All">> /\ csv[hi].HA = <<"All">>)
               /\ bc_hsda(csv[hi]) = hsda
            THEN csv[hi].Cases_Reported ELSE 0)

\* The last row of the download dated as row i or earlier.
bc_last_of_date(csv, i) ==
    CHOOSE j \in i..Len(csv) :
        /\ csv[j].Date = csv[i].Date
        /\ \A k \in j + 1..Len(csv) : csv[k].Date # csv[i].Date

\* What the latest row of the run under way did.
bc_did == IF bc_csv # <<>> /\ bc_i > 0 THEN bc_row_log.did ELSE "none"

\* The datum the latest row inserted.
bc_inserted == CHOOSE m \in bc_tx.datum : m \notin bc_row_log.before.datum

BcEntersOnlyWhatIsMissing ==
    /\ \A dbs \in {bc_tx, bc_db} :
        /\ \A m1, m2 \in dbs.datum :
               (m1.location_jhu_key = m2.location_jhu_key
                /\ m1.ordinal_date = m2.ordinal_date) => m1 = m2
        /\ \A l1, l2 \in dbs.location : l1.jhu_key = l2.jhu_key => l1 = l2
    /\ bc_did = "found" =>
           /\ bc_tx.datum = bc_row_log.before.datum
           /\ bc_found(bc_row_log.before, bc_db,
                       bc_jhu_key(bc_hsda(bc_csv[bc_i])),
                       bc_date_to_ordinal_date(bc_csv[bc_i].Date)) # {}
    /\ bc_did = "inserted" =>
           /\ bc_row_log.before.datum \subseteq bc_tx.datum
           /\ Cardinality(bc_tx.datum) = Cardinality(bc_row_log.before.datum) + 1
           /\ bc_found(bc_row_log.before, bc_db,
                       bc_jhu_key(bc_hsda(bc_csv[bc_i])),
                       bc_date_to_ordinal_date(bc_csv[bc_i].Date)) = {}

\* A row of a second run found the datum an earlier run had committed, with
\* a value other than the total of this download, and left it.
BcFoundDatumOfEarlierRun ==
    /\ bc_runs = 2
    /\ bc_did = "found"
    /\ \E m \in bc_found(bc_db, bc_db, bc_jhu_key(bc_hsda(bc_csv[bc_i])),
                         bc_date_to_ordinal_date(bc_csv[bc_i].Date)) :
           /\ m \in bc_tx.datum
           /\ m.confirmed # total_counts[bc_hsda(bc_csv[bc_i])]

\* The dates of the first n lines of updated_files.txt.
ru_listed(n) ==
    {get_ordinal_date_from_filename(ru_lines[i]).ordinal_date : i \in 1..n}

\* C13: remove_updated_files deletes exactly the datum rows of the dates of
\* the listed files (after every line: of the lines handled so far) and
\* leaves the last_date row, the locations and the datum rows of every other
\* date as they were.
RemoveDeletesListedDatesOnly ==
    /\ ru_db.datum = {r \in ru_db0.datum : r.ordinal_date \notin ru_listed(ru_i)}
    /\ ru_db.location = ru_db0.location
    /\ ru_db.last_date = ru_db0.last_date
    /\ ru_status = "done" => ru_i = Len(ru_lines)

\* Two files were listed, the data of their dates are gone, the data of
\* another date are still there, and last_date is one of the listed dates.
RemovedTwoDatesOfThree ==
    /\ ru_status = "done"
    /\ Cardinality(ru_listed(Len(ru_lines))) = 2
    /\ \A d \in ru_listed(Len(ru_lines)) : \E r \in ru_db0.datum : r.ordinal_date = d
    /\ ru_db.datum # {}
    /\ ru_db.last_date \in ru_listed(Len(ru_lines))

\* The timer is running.
timer_running(self) == self.start_time # None

\* C14: start raises TimerError exactly when the timer is running, stop
\* exactly when it is not, reset never; a call that raises leaves the timer
\* as it was; and the timer is running exactly when the last call that did
\* not raise was start.
TimerRaisesExactlyOnMisuse ==
    /\ timer_call.name = "start" =>
           (timer_call.raised = "TimerError" <=> timer_running(timer_call.before))
    /\ timer_call.name = "stop" =>
           (timer_call.raised = "TimerError" <=> ~timer_running(timer_call.before))
    /\ timer_call.name = "reset" => timer_call.raised = ""
    /\ timer_call.raised \in {"", "TimerError"}
    /\ timer_call.raised # "" => timer_self = timer_call.before
    /\ timer_running(timer_self) <=> timer_last_ok = "start"

\* A stop raised on a timer that a stop had stopped after some time, and
\* left the elapsed time.
TimerStopRaisedOnStoppedTimer ==
    /\ timer_call.name = "stop"
    /\ timer_call.raised = "TimerError"
    /\ timer_last_ok = "stop"
    /\ elapsed_time # None
    /\ elapsed_time.value > 0

\* C15: from_dailys.get_files returns the entries that match mm-dd-yyyy.csv,
\* and of any two returned names that are calendar dates the one with the
\* earlier date comes first, also across years.
DailysGetFilesSortedByDate ==
    dailys_files.status = "returned" =>
        /\ Len(dailys_files.files) = Len(Filtered(listing))
        /\ \A i, j \in 1..Len(dailys_files.files) :
               (/\ IsCalendarDate(dailys_files.files[i])
                /\ IsCalendarDate(dailys_files.files[j])
                /\ EarlierDate(dailys_files.files[i], dailys_files.files[j])) => i < j

\* Acceleration of the days lo..hi.
accelerations(lo, hi) == [k \in 1..(hi - lo + 1) |-> traj_days[lo + k - 1].Acceleration]

\* C16: compute_trajectory on a non-empty list sets Velocity and
\* Acceleration of the first day to 0, Velocity of every later day to the
\* difference of Confirmed from the day before and Acceleration to the
\* difference of Velocity from the day before, and Smooth Acceleration of
\* every day to the mean of Acceleration over the last 5 days ending at it,
\* or over all days up to it when there are fewer.
TrajectoryIsDifferencesAndMean ==
    traj_status = "returned" =>
        /\ traj_days[1].Velocity = 0
        /\ traj_days[1].Acceleration = 0
        /\ \A n \in 2..Len(traj_days) :
            /\ traj_days[n].Velocity = traj_days[n].Confirmed - traj_days[n - 1].Confirmed
            /\ traj_days[n].Acceleration = traj_days[n].Velocity - traj_days[n - 1].Velocity
        /\ \A n \in 1..Len(traj_days) :
            LET k == IF n < 5 THEN n ELSE 5 IN
            /\ traj_days[n].Smooth_Acceleration.n = k
            /\ traj_days[n].Smooth_Acceleration.sum = Sum(accelerations(n - k + 1, n))

\* Seven days whose last mean leaves out an acceleration that is not 0 and
\* is no whole number.
TrajectoryOfSevenDays ==
    /\ traj_status = "returned"
    /\ Len(traj_days) = 7
    /\ traj_days[2].Acceleration # 0
    /\ traj_days[7].Smooth_Acceleration.sum % 5 # 0
    /\ traj_days[7].Smooth_Acceleration.sum # Sum(accelerations(1, 7))

\* C17: plot_it raises no ZeroDivisionError for a series of at least two
\* days.
PlotItRaisesNoZeroDivisionError ==
    (plot_pc = "plotted" /\ Len(all_days) >= 2
        /\ Len(tail_slice(all_days, plot_shown.inputs.display_days)) >= 2) =>
        plot_shown.status # "ZeroDivisionError"

====
